---- MODULE Spec2Model ----
(***************************************************************************)
(* Model of backend/api.py of ai-pacman: the Flask handlers that build a   *)
(* gridworld, run value iteration or tabular Q-learning on it and return   *)
(* the tables.  The handlers' control flow (api.py) is modelled step by    *)
(* step.  gridworld.py, qlearningAgents.py, learningAgents.py and          *)
(* valueIterationAgents.py are modelled from the specification (sections   *)
(* 4.1 to 4.3): a two-cell grid, a Q-table over its legal pairs.           *)
(*                                                                         *)
(* Numbers: probabilities, hyperparameters, rewards and table entries are  *)
(* fixed-point numbers in tenths (0.3 is 3, a reward of +1 is 10); a       *)
(* product is divided by 10 and floored.                                   *)
(***************************************************************************)
EXTENDS Integers, Sequences, FiniteSets, TLC

\* ---------------------------------------------------------------- bounds
MaxEpisodes == 2
MaxIterations == 2

\* ------------------------------------------------------ program constants
\* api.py:293  `steps > 100`
StepCap == 100

\* ---------------------------------------------------------------- values
None == "None"
NoObject == None
Requests == {1, 2}
Objects == {"object 1", "object 2"}

\* ============================================================ gridworld
\* A gridworld of two cells in a row: the start cell and a cell whose exit
\* pays +1, and the terminal sentinel.
Start == "(0,0)"
ExitCell == "(1,0)"
TerminalState == "TERMINAL_STATE"
ExitReward == 10 * 1

\* api.py:47-49
get_gridworld_grids == {"BookGrid", "BridgeGrid", "CliffGrid", "MazeGrid", "DiscountGrid"}

\* a lookup that finds a constructor for every name
grid_func_Any(grid_name) == grid_name

\* api.py:191, 249, 487   getattr(gridworld, f'get{grid_name}', None)
grid_func(grid_name) == IF grid_name \in get_gridworld_grids THEN grid_name ELSE None

getStates == {Start, ExitCell, TerminalState}

getStartState == Start

\* the legal actions of a state, in iteration order; empty iff terminal
getPossibleActions(state) ==
    IF state = TerminalState THEN << >>
    ELSE IF state = ExitCell THEN << "exit" >>
    ELSE << "north", "west", "south", "east" >>

SeqToSet(s) == {s[i] : i \in 1..Len(s)}

\* where a move in a direction leads: off the grid is staying in place
Move(state, dir) ==
    IF state = Start /\ dir = "east" THEN ExitCell
    ELSE IF state = ExitCell /\ dir = "west" THEN Start
    ELSE state

Perpendicular(dir) ==
    IF dir \in {"north", "south"} THEN << "west", "east" >> ELSE << "north", "south" >>

\* list of (nextState, probability in tenths); probabilities sum to 10
getTransitionStatesAndProbs(state, action, noise) ==
    IF action = "exit" THEN << << TerminalState, 10 >> >>
    ELSE << << Move(state, action), 10 - noise >>,
            << Move(state, Perpendicular(action)[1]), noise \div 2 >>,
            << Move(state, Perpendicular(action)[2]), noise - (noise \div 2) >> >>

getReward(state, action, nextState, livingReward) ==
    IF state = TerminalState THEN 0
    ELSE IF state = ExitCell THEN ExitReward
    ELSE livingReward

\* the outcomes doAction can draw: every successor of positive probability
doActionOutcomes(state, action, noise, livingReward) ==
    LET T == getTransitionStatesAndProbs(state, action, noise)
    IN  { << T[i][1], getReward(state, action, T[i][1], livingReward) >> :
            i \in {j \in 1..Len(T) : T[j][2] > 0} }

\* ================================================== ValueIterationAgent
ZeroValues == [s \in getStates |-> 0]

RECURSIVE SumOutcomes(_, _, _, _, _, _, _)
SumOutcomes(V, T, i, state, action, livingReward, discount) ==
    IF i > Len(T) THEN 0
    ELSE T[i][2] * (getReward(state, action, T[i][1], livingReward)
                    + (discount * V[T[i][1]]) \div 10)
         + SumOutcomes(V, T, i + 1, state, action, livingReward, discount)

computeQValueFromValues(V, state, action, noise, livingReward, discount) ==
    SumOutcomes(V, getTransitionStatesAndProbs(state, action, noise), 1,
                state, action, livingReward, discount) \div 10

MaxOf(S) == CHOOSE m \in S : \A x \in S : x <= m

\* one synchronous Bellman sweep: V' is built from V alone
Sweep(V, noise, livingReward, discount) ==
    [s \in getStates |->
        IF getPossibleActions(s) = << >> THEN 0
        ELSE MaxOf({computeQValueFromValues(V, s, a, noise, livingReward, discount) :
                      a \in SeqToSet(getPossibleActions(s))})]

RECURSIVE runValueIteration(_, _, _, _, _)
runValueIteration(V, k, noise, livingReward, discount) ==
    IF k <= 0 THEN V
    ELSE runValueIteration(Sweep(V, noise, livingReward, discount), k - 1,
                           noise, livingReward, discount)

\* the first action, in iteration order, of the largest value; None if none
\* (vals[i] is the value of actions[i])
FirstBest(actions, vals) ==
    IF actions = << >> THEN None
    ELSE LET m == MaxOf({vals[i] : i \in 1..Len(actions)})
             i == CHOOSE j \in 1..Len(actions) :
                     /\ vals[j] = m
                     /\ \A k \in 1..(j - 1) : vals[k] < m
         IN  actions[i]

computeActionFromValues(V, state, noise, livingReward, discount) ==
    LET actions == getPossibleActions(state)
    IN  FirstBest(actions,
                  [i \in 1..Len(actions) |->
                      computeQValueFromValues(V, state, actions[i], noise,
                                              livingReward, discount)])

\* ======================================================= QLearningAgent
QKeys == {<< s, a >> : s \in getStates, a \in {"north", "west", "south", "east", "exit"}}

LegalKeys == {k \in QKeys : k[2] \in SeqToSet(getPossibleActions(k[1]))}

\* the Q-table: 0 for every pair never updated
ZeroQ == [k \in LegalKeys |-> 0]

getQValue(q, state, action) == q[<< state, action >>]

computeValueFromQValues(q, state) ==
    IF getPossibleActions(state) = << >> THEN 0
    ELSE MaxOf({getQValue(q, state, a) : a \in SeqToSet(getPossibleActions(state))})

computeActionFromQValues(q, state) ==
    LET actions == getPossibleActions(state)
    IN  FirstBest(actions, [i \in 1..Len(actions) |-> getQValue(q, state, actions[i])])

\* the actions epsilon-greedy getAction may return in a state
getActionChoices(q, state, epsilon) ==
    IF getPossibleActions(state) = << >> THEN {None}
    ELSE (IF epsilon > 0 THEN SeqToSet(getPossibleActions(state)) ELSE {})
         \cup (IF epsilon < 10 THEN {computeActionFromQValues(q, state)} ELSE {})

\* Q(s,a) <- Q(s,a) + alpha (reward + gamma max_a' Q(s',a') - Q(s,a))
updateQ(q, state, action, nextState, reward, alpha, gamma) ==
    [q EXCEPT ![<< state, action >>] =
        @ + (alpha * (reward + (gamma * computeValueFromQValues(q, nextState)) \div 10 - @)) \div 10]


\* ======================================================== learning agent
\* QLearningAgent(actionFn, epsilon, alpha, gamma): an empty Q-table, Idle
QLearningAgent(epsilon, alpha, gamma) ==
    [made |-> TRUE, epsilon |-> epsilon, alpha |-> alpha, gamma |-> gamma,
     episodeRewards |-> 0, running |-> FALSE, episodesStarted |-> 0,
     episodesSoFar |-> 0, protocolViolated |-> FALSE, q |-> ZeroQ]

NoAgent ==
    [made |-> FALSE, epsilon |-> 0, alpha |-> 0, gamma |-> 0,
     episodeRewards |-> 0, running |-> FALSE, episodesStarted |-> 0,
     episodesSoFar |-> 0, protocolViolated |-> FALSE, q |-> ZeroQ]

\* Idle -> EpisodeRunning; resets the per-episode reward
startEpisode(ag) ==
    [ag EXCEPT !.episodeRewards = 0, !.running = TRUE,
               !.episodesStarted = @ + 1,
               !.protocolViolated = @ \/ ag.running]

\* EpisodeRunning -> Idle; one more episode finished
stopEpisode(ag) ==
    [ag EXCEPT !.running = FALSE, !.episodesSoFar = @ + 1,
               !.protocolViolated = @ \/ ~ag.running]

\* getAction leaves the agent as it is; a call outside an episode is recorded
getActionCall(ag) == [ag EXCEPT !.protocolViolated = @ \/ ~ag.running]

update(ag, state, action, nextState, reward) ==
    [ag EXCEPT !.q = updateQ(@, state, action, nextState, reward, ag.alpha, ag.gamma),
               !.protocolViolated = @ \/ ~ag.running]

\* ================================================== GridworldEnvironment
\* the constructor resets: the current state is the start state
GridworldEnvironment == [made |-> TRUE, state |-> getStartState]

NoEnvironment == [made |-> FALSE, state |-> None]

reset(e) == [e EXCEPT !.state = getStartState]

Gridworld(noise, livingReward) == [made |-> TRUE, noise |-> noise, livingReward |-> livingReward]

NoGridworld == [made |-> FALSE, noise |-> 0, livingReward |-> 0]

\* a Gridworld as its constructor leaves it: noise 0.2, living reward 0.0
DefaultNoise == 2 * 1

\* =============================================================== requests
\* hyperparameters must lie in (0, 1]
InRange(h) == 0 < h /\ h <= 10

Hyper == {0, 10}

\* request.json of POST /api/value-iteration
VIRequests ==
    [handler : {"run_value_iteration"}, grid : {"BookGrid", "NoSuchGrid"},
     iterations : 0..MaxIterations, episodes : {0},
     epsilon : {3}, alpha : {5}, discount : {0, 9, 10},
     noise : {0, 2}, livingReward : {0}, maxSteps : {StepCap}]

\* epsilon, alpha, discount as a request supplies them: all in range, or
\* one of them out of range
HyperVectors == { << 10, 10, 10 >>, << 0, 10, 10 >>, << 10, 0, 10 >>, << 10, 10, 0 >> }

\* request.json of POST /api/qlearning/start; maxSteps is a step cap the
\* caller asks for
QLRequests ==
    { r \in [handler : {"start_qlearning"}, grid : {"BookGrid", "NoSuchGrid"},
             iterations : {0}, episodes : 0..MaxEpisodes,
             epsilon : Hyper, alpha : Hyper, discount : Hyper,
             noise : {0, 2}, livingReward : {0}, maxSteps : {3}] :
        << r.epsilon, r.alpha, r.discount >> \in HyperVectors }

\* request.json of POST /api/demo/compare
CompareRequests ==
    [handler : {"compare_algorithms"}, grid : {"BookGrid", "NoSuchGrid"},
     iterations : 0..MaxIterations, episodes : 0..MaxEpisodes,
     epsilon : {3}, alpha : {5}, discount : {9},
     noise : {2}, livingReward : {0}, maxSteps : {3}]

RequestInputs == VIRequests \cup QLRequests \cup CompareRequests

NoRequest ==
    [handler |-> None, grid |-> None, iterations |-> 0, episodes |-> 0,
     epsilon |-> 0, alpha |-> 0, discount |-> 0, noise |-> 0,
     livingReward |-> 0, maxSteps |-> 0]

\* ============================================================== responses
EmptyMap == << >>

NoResponse ==
    [status |-> 0, keys |-> {}, values |-> EmptyMap, policy |-> EmptyMap,
     qValues |-> EmptyMap, trainingHistory |-> << >>, comparisons |-> << >>]

\* api.py:193, 251, 489   jsonify({'error': ...}), 404
NotFoundResponse == [NoResponse EXCEPT !.status = 404, !.keys = {"error"}]

\* api.py:230-232, 334-336, 552-554   jsonify({'error', 'traceback'}), 500
ErrorResponse == [NoResponse EXCEPT !.status = 500, !.keys = {"error", "traceback"}]

NonTerminal == {s \in getStates : s # TerminalState}

\* api.py:312-321, 536-542  values and policy read off the final Q-table
QLValues(q) == [s \in NonTerminal |-> computeValueFromQValues(q, s)]

QLPolicy(q) == [s \in NonTerminal |-> computeActionFromQValues(q, s)]

\* ================================================================== state
VARIABLES
    training_sessions,  \* api.py:32
    session_lock,       \* api.py:33
    gwHeap, envHeap, agentHeap,   \* the objects constructed so far
    pc, req,            \* each request's position and its request.json
    gw, env, agent,     \* each handler's locals gw, env, agent: object ids
    episode, state, total_reward, steps, results, comparisons,
    action,             \* the action compare_algorithms got and has yet to apply
    response,
    sweeps,             \* Bellman sweeps this request has run
    called,             \* trainer and environment operations this request called
    misuse              \* calls this request made against an operation's contract

heapVars == << gwHeap, envHeap, agentHeap >>
refVars == << gw, env, agent >>
loopVars == << episode, state, total_reward, steps, results >>
globalVars == << training_sessions, session_lock >>
vars == << training_sessions, session_lock, gwHeap, envHeap, agentHeap, pc, req,
           gw, env, agent, episode, state, total_reward, steps, results,
           comparisons, action, response, sweeps, called, misuse >>

Init ==
    /\ training_sessions = {}
    /\ session_lock = "unlocked"
    /\ gwHeap = [o \in Objects |-> NoGridworld]
    /\ envHeap = [o \in Objects |-> NoEnvironment]
    /\ agentHeap = [o \in Objects |-> NoAgent]
    /\ pc = [p \in Requests |-> "idle"]
    /\ req = [p \in Requests |-> NoRequest]
    /\ gw = [p \in Requests |-> NoObject]
    /\ env = [p \in Requests |-> NoObject]
    /\ agent = [p \in Requests |-> NoObject]
    /\ episode = [p \in Requests |-> 0]
    /\ state = [p \in Requests |-> None]
    /\ total_reward = [p \in Requests |-> 0]
    /\ steps = [p \in Requests |-> 0]
    /\ results = [p \in Requests |-> << >>]
    /\ comparisons = [p \in Requests |-> << >>]
    /\ response = [p \in Requests |-> NoResponse]
    /\ sweeps = [p \in Requests |-> 0]
    /\ action = [p \in Requests |-> None]
    /\ called = [p \in Requests |-> {}]
    /\ misuse = [p \in Requests |-> {}]

\* one environment and one agent kept by the module and used by every request
NewObject_Shared(p) == "object 1"

\* the objects a handler constructs are its own: fresh on every request
NewObject(p) == IF p = 1 THEN "object 1" ELSE "object 2"

\* a request arrives with its JSON body
Receive(p, inputs) ==
    /\ pc[p] = "idle"
    /\ \E data \in inputs : req' = [req EXCEPT ![p] = data]
    /\ pc' = [pc EXCEPT ![p] = "try"]
    /\ UNCHANGED << globalVars, heapVars, refVars, loopVars, comparisons,
                    response, sweeps, called, misuse, action >>


\* ============================================== POST /api/value-iteration
\* api.py:191-193
VI_GridNotFound(p) ==
    /\ pc[p] = "try" /\ req[p].handler = "run_value_iteration"
    /\ grid_func(req[p].grid) = None
    /\ response' = [response EXCEPT ![p] = NotFoundResponse]
    /\ pc' = [pc EXCEPT ![p] = "done"]
    /\ UNCHANGED << globalVars, heapVars, refVars, loopVars, comparisons, req,
                    sweeps, called, misuse, action >>

\* api.py:195-229  build the grid, run the sweeps, return values and policy
VI_Solve(p) ==
    /\ pc[p] = "try" /\ req[p].handler = "run_value_iteration"
    /\ grid_func(req[p].grid) # None
    /\ LET o == NewObject(p)
           V == runValueIteration(ZeroValues, req[p].iterations, req[p].noise,
                                  req[p].livingReward, req[p].discount)
       IN  /\ gwHeap' = [gwHeap EXCEPT ![o] = Gridworld(req[p].noise, req[p].livingReward)]
           /\ gw' = [gw EXCEPT ![p] = o]
           /\ sweeps' = [sweeps EXCEPT ![p] = req[p].iterations]
           /\ response' = [response EXCEPT ![p] =
                 [NoResponse EXCEPT
                    !.status = 200,
                    !.keys = {"grid", "iterations", "discount", "noise", "livingReward",
                              "gridData", "values", "policy"},
                    !.values = [s \in NonTerminal |-> V[s]],
                    !.policy = [s \in NonTerminal |->
                                  computeActionFromValues(V, s, req[p].noise,
                                      req[p].livingReward, req[p].discount)],
                    !.qValues = [k \in LegalKeys |->
                                  computeQValueFromValues(V, k[1], k[2], req[p].noise,
                                      req[p].livingReward, req[p].discount)]]]
    /\ pc' = [pc EXCEPT ![p] = "done"]
    /\ UNCHANGED << globalVars, envHeap, agentHeap, env, agent, loopVars,
                    comparisons, req, called, misuse, action >>

\* ============================================== POST /api/qlearning/start
\* api.py:249-251
QL_GridNotFound(p) ==
    /\ pc[p] = "try" /\ req[p].handler = "start_qlearning"
    /\ grid_func(req[p].grid) = None
    /\ response' = [response EXCEPT ![p] = NotFoundResponse]
    /\ pc' = [pc EXCEPT ![p] = "done"]
    /\ UNCHANGED << globalVars, heapVars, refVars, loopVars, comparisons, req,
                    sweeps, called, misuse, action >>

\* api.py:253-269  the grid, the environment, the agent, results = []
QL_Construct(p) ==
    /\ pc[p] = "try" /\ req[p].handler = "start_qlearning"
    /\ grid_func(req[p].grid) # None
    /\ LET o == NewObject(p)
       IN  /\ gwHeap' = [gwHeap EXCEPT ![o] = Gridworld(req[p].noise, req[p].livingReward)]
           /\ envHeap' = [envHeap EXCEPT ![o] = GridworldEnvironment]
           /\ agentHeap' = [agentHeap EXCEPT ![o] =
                               QLearningAgent(req[p].epsilon, req[p].alpha, req[p].discount)]
           /\ gw' = [gw EXCEPT ![p] = o]
           /\ env' = [env EXCEPT ![p] = o]
           /\ agent' = [agent EXCEPT ![p] = o]
    /\ results' = [results EXCEPT ![p] = << >>]
    /\ episode' = [episode EXCEPT ![p] = 0]
    /\ pc' = [pc EXCEPT ![p] = "for"]
    /\ UNCHANGED << globalVars, state, total_reward, steps, comparisons,
                    req, response, sweeps, called, misuse, action >>

\* range(episodes + 1): one episode too many
MoreEpisodes_OffByOne(ep, episodes) == ep <= episodes

\* api.py:270, 520  for episode in range(episodes): is there another one
MoreEpisodes(ep, episodes) == ep < episodes

\* api.py:270-274  the next episode: startEpisode, read the current state
QL_StartEpisode(p) ==
    /\ pc[p] = "for" /\ req[p].handler = "start_qlearning"
    /\ MoreEpisodes(episode[p], req[p].episodes)
    /\ agentHeap' = [agentHeap EXCEPT ![agent[p]] = startEpisode(@)]
    /\ state' = [state EXCEPT ![p] = envHeap[env[p]].state]
    /\ total_reward' = [total_reward EXCEPT ![p] = 0]
    /\ steps' = [steps EXCEPT ![p] = 0]
    /\ called' = [called EXCEPT ![p] = @ \cup {"startEpisode"}]
    /\ pc' = [pc EXCEPT ![p] = "while"]
    /\ UNCHANGED << globalVars, gwHeap, envHeap, refVars, episode, results,
                    comparisons, req, response, sweeps, misuse, action >>

\* the cap is tested one step late
QL_LoopBreaks_Late(st, n) == st = TerminalState \/ n > StepCap + 1

\* api.py:293  the loop is left at the terminal state or past the cap
QL_LoopBreaks(st, n) == st = TerminalState \/ n > StepCap

\* the local state is never advanced
AdvanceState_Stale(st, next_state) == st

\* api.py:291, 530  state = next_state
AdvanceState(st, next_state) == next_state

\* what a call of doAction and update breaks: a step of a finished
\* environment, a state that is not the environment's current one
StepMisuse(p) ==
    (IF getPossibleActions(envHeap[env[p]].state) = << >>
        THEN {"doAction on a finished environment"} ELSE {})
    \cup (IF state[p] # envHeap[env[p]].state THEN {"state is not the current state"} ELSE {})

\* api.py:276-294  one pass of the loop: the legal actions, the agent's
\* action, one environment step, the update, the counters, the break
QL_Iterate(p) ==
    /\ pc[p] = "while" /\ req[p].handler = "start_qlearning"
    /\ IF getPossibleActions(state[p]) = << >>
       THEN /\ pc' = [pc EXCEPT ![p] = "stop"]
            /\ UNCHANGED << envHeap, agentHeap, total_reward, steps, state, called,
                            misuse >>
       ELSE \E a \in getActionChoices(agentHeap[agent[p]].q, state[p],
                                      agentHeap[agent[p]].epsilon) :
              IF a = None
              THEN /\ pc' = [pc EXCEPT ![p] = "stop"]
                   /\ agentHeap' = [agentHeap EXCEPT ![agent[p]] = getActionCall(@)]
                   /\ called' = [called EXCEPT ![p] = @ \cup {"getAction"}]
                   /\ UNCHANGED << envHeap, total_reward, steps, state, misuse >>
              ELSE \E out \in doActionOutcomes(envHeap[env[p]].state, a,
                                     gwHeap[gw[p]].noise, gwHeap[gw[p]].livingReward) :
                     LET next_state == out[1]
                         reward == out[2]
                     IN  /\ envHeap' = [envHeap EXCEPT ![env[p]].state = next_state]
                         /\ agentHeap' = [agentHeap EXCEPT ![agent[p]] =
                               [update(getActionCall(@), state[p], a, next_state, reward)
                                   EXCEPT !.episodeRewards = @ + reward]]
                         /\ total_reward' = [total_reward EXCEPT ![p] = @ + reward]
                         /\ steps' = [steps EXCEPT ![p] = @ + 1]
                         /\ state' = [state EXCEPT ![p] = AdvanceState(@, next_state)]
                         /\ called' = [called EXCEPT ![p] =
                                          @ \cup {"getAction", "doAction", "update"}]
                         /\ misuse' = [misuse EXCEPT ![p] = @ \cup StepMisuse(p)]
                         /\ pc' = [pc EXCEPT ![p] =
                               IF QL_LoopBreaks(AdvanceState(state[p], next_state), steps[p] + 1)
                               THEN "stop" ELSE "while"]
    /\ UNCHANGED << globalVars, gwHeap, refVars, episode, results, comparisons, req,
                    response, sweeps, action >>

\* api.py:300  every 5% of the episodes is stored
StoresEpisode(ep, episodes) ==
    LET every == IF episodes \div 20 > 1 THEN episodes \div 20 ELSE 1
    IN  ep % every = 0

\* the episode is left without stopEpisode
QL_StopEpisode_NoStop(p) ==
    /\ pc[p] = "stop" /\ req[p].handler = "start_qlearning"
    /\ envHeap' = [envHeap EXCEPT ![env[p]] = reset(@)]
    /\ results' = [results EXCEPT ![p] =
          IF StoresEpisode(episode[p], req[p].episodes)
          THEN Append(@, [episode |-> episode[p], totalReward |-> total_reward[p],
                          steps |-> steps[p]])
          ELSE @]
    /\ episode' = [episode EXCEPT ![p] = @ + 1]
    /\ called' = [called EXCEPT ![p] = @ \cup {"reset"}]
    /\ pc' = [pc EXCEPT ![p] = "for"]
    /\ UNCHANGED << globalVars, gwHeap, agentHeap, refVars, state, total_reward, steps,
                    comparisons, req, response, sweeps, misuse, action >>

\* the environment is not reset after the episode
QL_StopEpisode_NoReset(p) ==
    /\ pc[p] = "stop" /\ req[p].handler = "start_qlearning"
    /\ agentHeap' = [agentHeap EXCEPT ![agent[p]] = stopEpisode(@)]
    /\ results' = [results EXCEPT ![p] =
          IF StoresEpisode(episode[p], req[p].episodes)
          THEN Append(@, [episode |-> episode[p], totalReward |-> total_reward[p],
                          steps |-> steps[p]])
          ELSE @]
    /\ episode' = [episode EXCEPT ![p] = @ + 1]
    /\ called' = [called EXCEPT ![p] = @ \cup {"stopEpisode"}]
    /\ pc' = [pc EXCEPT ![p] = "for"]
    /\ UNCHANGED << globalVars, gwHeap, envHeap, refVars, state, total_reward, steps,
                    comparisons, req, response, sweeps, misuse, action >>

\* api.py:296-305  stopEpisode, reset the environment, store the episode
QL_StopEpisode(p) ==
    /\ pc[p] = "stop" /\ req[p].handler = "start_qlearning"
    /\ agentHeap' = [agentHeap EXCEPT ![agent[p]] = stopEpisode(@)]
    /\ envHeap' = [envHeap EXCEPT ![env[p]] = reset(@)]
    /\ results' = [results EXCEPT ![p] =
          IF StoresEpisode(episode[p], req[p].episodes)
          THEN Append(@, [episode |-> episode[p], totalReward |-> total_reward[p],
                          steps |-> steps[p]])
          ELSE @]
    /\ episode' = [episode EXCEPT ![p] = @ + 1]
    /\ called' = [called EXCEPT ![p] = @ \cup {"stopEpisode", "reset"}]
    /\ pc' = [pc EXCEPT ![p] = "for"]
    /\ UNCHANGED << globalVars, gwHeap, refVars, state, total_reward, steps,
                    comparisons, req, response, sweeps, misuse, action >>

\* api.py:307-333  the final Q-values, values and policy are returned
QL_Respond(p) ==
    /\ pc[p] = "for" /\ req[p].handler = "start_qlearning"
    /\ ~MoreEpisodes(episode[p], req[p].episodes)
    /\ response' = [response EXCEPT ![p] =
          [NoResponse EXCEPT
             !.status = 200,
             !.keys = {"grid", "episodes", "epsilon", "alpha", "discount",
                       "trainingHistory", "gridData", "values", "policy"},
             !.values = QLValues(agentHeap[agent[p]].q),
             !.policy = QLPolicy(agentHeap[agent[p]].q),
             !.qValues = agentHeap[agent[p]].q,
             !.trainingHistory = results[p]]]
    /\ pc' = [pc EXCEPT ![p] = "done"]
    /\ UNCHANGED << globalVars, heapVars, refVars, loopVars, comparisons, req,
                    sweeps, called, misuse, action >>

\* ================================================= POST /api/demo/compare
\* api.py:487-489
CMP_GridNotFound(p) ==
    /\ pc[p] = "try" /\ req[p].handler = "compare_algorithms"
    /\ grid_func(req[p].grid) = None
    /\ response' = [response EXCEPT ![p] = NotFoundResponse]
    /\ pc' = [pc EXCEPT ![p] = "done"]
    /\ UNCHANGED << globalVars, heapVars, refVars, loopVars, comparisons, req,
                    sweeps, called, misuse, action >>

\* api.py:491-518  the grid, value iteration and its entry, then the
\* environment and a Q-learning agent of epsilon 0.3, alpha 0.5, gamma 0.9
CMP_Construct(p) ==
    /\ pc[p] = "try" /\ req[p].handler = "compare_algorithms"
    /\ grid_func(req[p].grid) # None
    /\ LET o == NewObject(p)
           V == runValueIteration(ZeroValues, req[p].iterations, DefaultNoise, 0, 9)
       IN  /\ gwHeap' = [gwHeap EXCEPT ![o] = Gridworld(DefaultNoise, 0)]
           /\ envHeap' = [envHeap EXCEPT ![o] = GridworldEnvironment]
           /\ agentHeap' = [agentHeap EXCEPT ![o] = QLearningAgent(3, 5, 9)]
           /\ gw' = [gw EXCEPT ![p] = o]
           /\ env' = [env EXCEPT ![p] = o]
           /\ agent' = [agent EXCEPT ![p] = o]
           /\ comparisons' = [comparisons EXCEPT ![p] =
                 << [algorithm |-> "Value Iteration",
                     values |-> [s \in NonTerminal |-> V[s]],
                     policy |-> [s \in NonTerminal |->
                                   computeActionFromValues(V, s, DefaultNoise, 0, 9)]] >>]
    /\ sweeps' = [sweeps EXCEPT ![p] = req[p].iterations]
    /\ episode' = [episode EXCEPT ![p] = 0]
    /\ pc' = [pc EXCEPT ![p] = "for"]
    /\ UNCHANGED << globalVars, state, total_reward, steps, results, req,
                    response, called, misuse, action >>

\* api.py:520-522
CMP_StartEpisode(p) ==
    /\ pc[p] = "for" /\ req[p].handler = "compare_algorithms"
    /\ MoreEpisodes(episode[p], req[p].episodes)
    /\ agentHeap' = [agentHeap EXCEPT ![agent[p]] = startEpisode(@)]
    /\ state' = [state EXCEPT ![p] = envHeap[env[p]].state]
    /\ called' = [called EXCEPT ![p] = @ \cup {"startEpisode"}]
    /\ pc' = [pc EXCEPT ![p] = "while"]
    /\ UNCHANGED << globalVars, gwHeap, envHeap, refVars, episode, total_reward,
                    steps, results, comparisons, req, response, sweeps, misuse,
                    action >>

\* api.py:523  while state != terminalState: the only way out of the loop
\* besides a None action
CMP_LoopEnds(st) == st = TerminalState

\* api.py:523-526  the loop test, then the agent's action; at the terminal
\* state or on a None action the loop is left
CMP_GetAction(p) ==
    /\ pc[p] = "while" /\ req[p].handler = "compare_algorithms"
    /\ IF CMP_LoopEnds(state[p])
       THEN /\ pc' = [pc EXCEPT ![p] = "stop"]
            /\ UNCHANGED << agentHeap, action, called >>
       ELSE \E a \in getActionChoices(agentHeap[agent[p]].q, state[p],
                                      agentHeap[agent[p]].epsilon) :
              /\ action' = [action EXCEPT ![p] = a]
              /\ pc' = [pc EXCEPT ![p] = IF a = None THEN "stop" ELSE "step"]
              /\ agentHeap' = [agentHeap EXCEPT ![agent[p]] = getActionCall(@)]
              /\ called' = [called EXCEPT ![p] = @ \cup {"getAction"}]
    /\ UNCHANGED << globalVars, gwHeap, envHeap, refVars, loopVars, comparisons, req,
                    response, sweeps, misuse >>

\* api.py:527-530  one environment step and the update; back to the loop test
CMP_Step(p) ==
    /\ pc[p] = "step" /\ req[p].handler = "compare_algorithms"
    /\ \E out \in doActionOutcomes(envHeap[env[p]].state, action[p],
                                   gwHeap[gw[p]].noise, gwHeap[gw[p]].livingReward) :
          LET next_state == out[1]
              reward == out[2]
          IN  /\ envHeap' = [envHeap EXCEPT ![env[p]].state = next_state]
              /\ agentHeap' = [agentHeap EXCEPT ![agent[p]] =
                    [update(@, state[p], action[p], next_state, reward)
                        EXCEPT !.episodeRewards = @ + reward]]
              /\ state' = [state EXCEPT ![p] = AdvanceState(@, next_state)]
    /\ called' = [called EXCEPT ![p] = @ \cup {"doAction", "update"}]
    /\ misuse' = [misuse EXCEPT ![p] = @ \cup StepMisuse(p)]
    /\ pc' = [pc EXCEPT ![p] = "while"]
    /\ UNCHANGED << globalVars, gwHeap, refVars, episode, total_reward, steps,
                    results, comparisons, req, response, sweeps, action >>

\* api.py:531-532
CMP_StopEpisode(p) ==
    /\ pc[p] = "stop" /\ req[p].handler = "compare_algorithms"
    /\ agentHeap' = [agentHeap EXCEPT ![agent[p]] = stopEpisode(@)]
    /\ envHeap' = [envHeap EXCEPT ![env[p]] = reset(@)]
    /\ episode' = [episode EXCEPT ![p] = @ + 1]
    /\ called' = [called EXCEPT ![p] = @ \cup {"stopEpisode", "reset"}]
    /\ pc' = [pc EXCEPT ![p] = "for"]
    /\ UNCHANGED << globalVars, gwHeap, refVars, state, total_reward, steps,
                    results, comparisons, req, response, sweeps, misuse, action >>

\* api.py:534-551  the Q-learning entry is added and both are returned
CMP_Respond(p) ==
    /\ pc[p] = "for" /\ req[p].handler = "compare_algorithms"
    /\ ~MoreEpisodes(episode[p], req[p].episodes)
    /\ LET all == Append(comparisons[p],
                     [algorithm |-> "Q-Learning",
                      values |-> QLValues(agentHeap[agent[p]].q),
                      policy |-> QLPolicy(agentHeap[agent[p]].q)])
       IN  /\ comparisons' = [comparisons EXCEPT ![p] = all]
           /\ response' = [response EXCEPT ![p] =
                 [NoResponse EXCEPT !.status = 200, !.keys = {"grid", "comparisons"},
                                    !.comparisons = all]]
    /\ pc' = [pc EXCEPT ![p] = "done"]
    /\ UNCHANGED << globalVars, heapVars, refVars, loopVars, req, sweeps, called,
                    misuse, action >>

\* ====================================================== a failing step
\* the handler is about to call env.doAction: start_qlearning in a pass of
\* its loop with a legal action to take, compare_algorithms with the action
\* it got
AboutToStep(p) ==
    \/ /\ req[p].handler = "start_qlearning" /\ pc[p] = "while"
       /\ getPossibleActions(state[p]) # << >>
    \/ /\ req[p].handler = "compare_algorithms" /\ pc[p] = "step"

\* the except clause answers with the error and the tables computed so far
EnvironmentFails_PartialTables(p) ==
    /\ AboutToStep(p)
    /\ response' = [response EXCEPT ![p] =
          [ErrorResponse EXCEPT !.keys = @ \cup {"values", "policy"},
                                !.values = QLValues(agentHeap[agent[p]].q),
                                !.policy = QLPolicy(agentHeap[agent[p]].q)]]
    /\ called' = [called EXCEPT ![p] = @ \cup {"getAction", "doAction"}]
    /\ pc' = [pc EXCEPT ![p] = "done"]
    /\ UNCHANGED << globalVars, heapVars, refVars, loopVars, comparisons, req,
                    sweeps, misuse, action >>

\* api.py:285, 334-336 and 527, 552-554  env.doAction raises: the handler's
\* except clause answers with the error and nothing else
EnvironmentFails(p) ==
    /\ AboutToStep(p)
    /\ response' = [response EXCEPT ![p] = ErrorResponse]
    /\ called' = [called EXCEPT ![p] = @ \cup {"getAction", "doAction"}]
    /\ pc' = [pc EXCEPT ![p] = "done"]
    /\ UNCHANGED << globalVars, heapVars, refVars, loopVars, comparisons, req,
                    sweeps, misuse, action >>

\* ========================================================= specifications
Handle(p) ==
    \/ VI_GridNotFound(p) \/ VI_Solve(p)
    \/ QL_GridNotFound(p) \/ QL_Construct(p) \/ QL_StartEpisode(p)
    \/ QL_Iterate(p)
    \/ QL_StopEpisode(p) \/ QL_Respond(p)
    \/ CMP_GridNotFound(p) \/ CMP_Construct(p) \/ CMP_StartEpisode(p)
    \/ CMP_GetAction(p) \/ CMP_Step(p)
    \/ CMP_StopEpisode(p) \/ CMP_Respond(p)
    \/ EnvironmentFails(p)

\* one request, served from arrival to response
Next == Receive(1, RequestInputs) \/ Handle(1)

Spec == Init /\ [][Next]_vars


\* the handlers that train, without a failing environment
Train(p) ==
    \/ QL_Construct(p) \/ QL_StartEpisode(p) \/ QL_Iterate(p)
    \/ QL_StopEpisode(p) \/ QL_Respond(p)
    \/ CMP_Construct(p) \/ CMP_StartEpisode(p) \/ CMP_GetAction(p) \/ CMP_Step(p)
    \/ CMP_StopEpisode(p) \/ CMP_Respond(p)

TrainingRequests == {r \in QLRequests \cup CompareRequests : r.grid = "BookGrid"}

\* one training request of at most one episode, whose handler is never
\* suspended for ever: the server thread runs it until it returns
FairInputs == {r \in TrainingRequests : r.episodes <= 1}

FairNext == Receive(1, FairInputs) \/ Train(1) \/ EnvironmentFails(1)

FairSpec == Init /\ [][FairNext]_vars /\ WF_vars(FairNext)

\* two requests served by two threads of the server, a step of one between
\* any two steps of the other
ConcInputs ==
    {r \in TrainingRequests :
        /\ r.episodes = 1 /\ r.iterations = 0 /\ r.noise = 2
        /\ r.handler = "start_qlearning" => << r.epsilon, r.alpha, r.discount >> = << 10, 10, 10 >>}

ConcNext == \E p \in Requests : Receive(p, ConcInputs) \/ Train(p)

ConcSpec == Init /\ [][ConcNext]_vars


\* ================================================================= claims
Training(p) == req[p].handler \in {"start_qlearning", "compare_algorithms"}

Succeeded(p) == pc[p] = "done" /\ response[p].status = 200

\* C1: every training episode ends: once a handler is in its episode loop
\* it leaves the loop, whatever actions the agent picks and whatever the
\* environment's outcomes are.
C1_EveryEpisodeEnds ==
    \A p \in Requests : (pc[p] \in {"while", "step"}) ~> (pc[p] \notin {"while", "step"})

\* C2: the orchestrator never steps a finished environment, and the state it
\* hands to getAction and update is the environment's current state: no
\* call of doAction or update has broken either rule.
C2_NeverStepsFinished == \A p \in Requests : misuse[p] = {}

\* a second episode is under way and the environment has been stepped in it
C2_Witness ==
    /\ Training(1) /\ pc[1] = "while" /\ episode[1] = 1
    /\ state[1] = ExitCell /\ envHeap[env[1]].state = ExitCell
    /\ "doAction" \in called[1]

\* C3: startEpisode and stopEpisode alternate, starting with startEpisode;
\* every episode started is stopped before the next one starts and before
\* the handler answers; getAction, doAction and update are called only
\* inside an episode.
C3_EpisodeLifecycle ==
    \A p \in Requests :
        agent[p] # NoObject =>
            LET ag == agentHeap[agent[p]]
            IN  /\ ~ag.protocolViolated
                /\ ag.episodesStarted = ag.episodesSoFar + (IF ag.running THEN 1 ELSE 0)
                /\ pc[p] = "for" => (~ag.running /\ ag.episodesSoFar = episode[p])
                /\ pc[p] \in {"while", "step", "stop"} => ag.running
                /\ Succeeded(p) => (~ag.running /\ ag.episodesSoFar = req[p].episodes)

\* a run of two episodes has answered: the first was cut by the step cap,
\* the second reached the terminal state
C3_Witness ==
    /\ Succeeded(1) /\ req[1].handler = "start_qlearning"
    /\ Len(results[1]) = 2
    /\ results[1][1].steps = StepCap + 1 /\ results[1][1].totalReward = 0
    /\ results[1][2].totalReward = ExitReward
    /\ agentHeap[agent[1]].episodesSoFar = 2

\* C4: whenever startEpisode is about to be called, the environment's
\* current state is the start state; the state an episode starts from is
\* the start state.
C4_EpisodesStartAtStart ==
    \A p \in Requests :
        /\ (Training(p) /\ pc[p] = "for" /\ MoreEpisodes(episode[p], req[p].episodes))
              => envHeap[env[p]].state = getStartState
        /\ (req[p].handler = "start_qlearning" /\ pc[p] = "while" /\ steps[p] = 0)
              => state[p] = getStartState

\* the second episode is about to start after a first one cut by the cap
C4_Witness ==
    /\ req[1].handler = "start_qlearning" /\ pc[1] = "for"
    /\ episode[1] = 1 /\ req[1].episodes = 2
    /\ Len(results[1]) = 1
    /\ results[1][1].steps = StepCap + 1 /\ results[1][1].totalReward = 0

\* C5: with episodes = 0 start_qlearning calls no trainer or environment
\* operation, and its answer reports 0 for every Q-value and state value
\* and an empty training history.
C5_ZeroEpisodes ==
    \A p \in Requests :
        (req[p].handler = "start_qlearning" /\ req[p].episodes = 0) =>
            /\ called[p] = {}
            /\ Succeeded(p) =>
                  /\ \A k \in LegalKeys : response[p].qValues[k] = 0
                  /\ \A st \in NonTerminal : response[p].values[st] = 0
                  /\ response[p].trainingHistory = << >>

C5_Witness ==
    /\ req[1].handler = "start_qlearning" /\ req[1].episodes = 0
    /\ Succeeded(1) /\ "values" \in response[1].keys

\* C6: for a grid name with no constructor, each of the three handlers
\* answers with an error and nothing else: no environment is constructed,
\* no sweep or episode runs, no table or policy is returned.
C6_UnknownGrid ==
    \A p \in Requests :
        (req[p].handler # None /\ req[p].grid \notin get_gridworld_grids) =>
            /\ gw[p] = NoObject /\ env[p] = NoObject /\ agent[p] = NoObject
            /\ sweeps[p] = 0 /\ called[p] = {}
            /\ pc[p] \in {"try", "done"}
            /\ pc[p] = "done" => response[p] = NotFoundResponse

C6_Witness ==
    /\ pc[1] = "done" /\ req[1].grid = "NoSuchGrid"
    /\ req[1].handler = "compare_algorithms" /\ response[1].status = 404

OutOfRange(r) ==
    \/ ~InRange(r.discount)
    \/ r.handler = "start_qlearning" /\ (~InRange(r.epsilon) \/ ~InRange(r.alpha))

\* C7: a request whose epsilon, alpha or discount is outside (0,1] is
\* answered with a failure: no sweep, episode or environment step runs and
\* no value table, Q-table or policy is returned.
C7_OutOfRangeRejected ==
    \A p \in Requests :
        (req[p].handler \in {"run_value_iteration", "start_qlearning"} /\ OutOfRange(req[p])) =>
            /\ sweeps[p] = 0 /\ called[p] = {}
            /\ pc[p] = "done" => (response[p].status \notin {0, 200}
                                   /\ response[p].values = EmptyMap)

C9_Isolation ==
    /\ [](/\ training_sessions = {} /\ session_lock = "unlocked"
          /\ \A p1, p2 \in Requests :
                (p1 # p2 /\ agent[p1] # NoObject /\ agent[p2] # NoObject) =>
                    (agent[p1] # agent[p2] /\ env[p1] # env[p2]))
    /\ [][\A p \in Requests :
            (pc'[p] = pc[p] /\ steps'[p] = steps[p] /\ agent[p] # NoObject) =>
                /\ agentHeap'[agent[p]] = agentHeap[agent[p]]
                /\ envHeap'[env[p]] = envHeap[env[p]]]_vars

\* both requests are inside an episode and have stepped their environments
C9_Witness ==
    /\ pc[1] = "while" /\ pc[2] = "while"
    /\ envHeap[env[1]].state = ExitCell /\ envHeap[env[2]].state = Start
    /\ "update" \in called[1] /\ "update" \in called[2]

\* C10: the step cap is the one the caller supplied: an episode of
\* start_qlearning is cut once its steps pass the request's maxSteps.
C10_CallerCap ==
    \A p \in Requests :
        req[p].handler = "start_qlearning" => steps[p] <= req[p].maxSteps + 1


\* C11: in start_qlearning no episode performs more than 100 environment
\* steps: the step counter, and the steps reported for every stored
\* episode, are at most the cap of 100.
C11_AtMostCapSteps ==
    \A p \in Requests :
        req[p].handler = "start_qlearning" =>
            /\ steps[p] <= StepCap
            /\ \A i \in 1..Len(results[p]) : results[p][i].steps <= StepCap

\* C11 as amended: the loop is left once steps > 100, after the step that
\* made it so: an episode performs at most 101 environment steps, and an
\* episode that has performed 101 has left its loop.
C11_AtMostCapPlusOneSteps ==
    \A p \in Requests :
        req[p].handler = "start_qlearning" =>
            /\ steps[p] <= StepCap + 1
            /\ \A i \in 1..Len(results[p]) : results[p][i].steps <= StepCap + 1
            /\ steps[p] = StepCap + 1 => pc[p] # "while"

\* an episode cut by the cap is reported with its 101 steps
C11_Witness ==
    /\ req[1].handler = "start_qlearning" /\ Succeeded(1)
    /\ Len(response[1].trainingHistory) >= 1
    /\ response[1].trainingHistory[1].steps = StepCap + 1

\* ================================================== POST /api/pacman/run
MaxTraining == 2
MaxGames == 2

\* api.py:352  layout.getLayout(layout_name): the layout, or None
Layouts == {"smallGrid"}

getLayout(layout_name) == IF layout_name \in Layouts THEN layout_name ELSE None

\* request.json of POST /api/pacman/run
PacmanRequests ==
    [handler : {"run_pacman_game"}, layout : {"smallGrid", "noSuchLayout"},
     agent : {"PacmanQAgent", "ApproximateQAgent", "RandomAgent"},
     numTraining : 0..MaxTraining, numGames : 0..MaxGames]

\* how a game ends: g.state.isWin(), g.state.isLose(), g.state.getScore()
Outcomes ==
    { [isWin |-> TRUE, isLose |-> FALSE, score |-> 5],
      [isWin |-> FALSE, isLose |-> TRUE, score |-> 0 - 5] }

\* the list the engine hands back: every game it played, or the games it
\* played after the training budget
EngineReturns == {"every game", "evaluation games"}

\* api.py:381-391  pacman.runGames(numGames, numTraining): the games are
\* played in order, the first numTraining of them are training games
runGames(numGames, numTraining, outcomes, returns) ==
    LET played == [i \in 1..numGames |->
                      [played |-> i - 1, training |-> i - 1 < numTraining,
                       isWin |-> outcomes[i].isWin, isLose |-> outcomes[i].isLose,
                       score |-> outcomes[i].score]]
    IN  IF returns = "every game" THEN played
        ELSE SubSeq(played, numTraining + 1, numGames)

\* api.py:394  games[num_training:] if len(games) > num_training else games
test_games(games, num_training) ==
    IF Len(games) > num_training THEN SubSeq(games, num_training + 1, Len(games))
    ELSE games

RECURSIVE SumScores(_)
SumScores(gs) == IF gs = << >> THEN 0 ELSE Head(gs).score + SumScores(Tail(gs))

\* api.py:401-405  wins, losses, and the average score in tenths, 0 for no game
summary(tg) ==
    [wins |-> Cardinality({i \in 1..Len(tg) : tg[i].isWin}),
     losses |-> Cardinality({i \in 1..Len(tg) : tg[i].isLose}),
     avgScore |-> IF tg # << >> THEN (10 * SumScores(tg)) \div Len(tg) ELSE 0]

\* api.py:353-354
PAC_LayoutNotFound(p) ==
    /\ pc[p] = "try" /\ req[p].handler = "run_pacman_game"
    /\ getLayout(req[p].layout) = None
    /\ response' = [response EXCEPT ![p] = NotFoundResponse]
    /\ pc' = [pc EXCEPT ![p] = "done"]
    /\ UNCHANGED << globalVars, heapVars, refVars, loopVars, comparisons, req,
                    sweeps, called, misuse, action >>

\* api.py:356-417  the agent, the games, the games kept, the summary, the
\* list of games; played and training say where a listed game came from
PAC_RunGames(p) ==
    /\ pc[p] = "try" /\ req[p].handler = "run_pacman_game"
    /\ getLayout(req[p].layout) # None
    /\ \E returns \in EngineReturns :
       \E outcomes \in [1..(req[p].numTraining + req[p].numGames) -> Outcomes] :
          LET num_training == req[p].numTraining
              games == runGames(num_training + req[p].numGames, num_training,
                                outcomes, returns)
              tg == test_games(games, num_training)
          IN  response' = [response EXCEPT ![p] =
                 [status |-> 200,
                  keys |-> {"layout", "agent", "numTraining", "numGames",
                            "games", "summary"},
                  summary |-> summary(tg),
                  games |-> [i \in 1..Len(tg) |->
                               [gameIndex |-> i - 1, score |-> tg[i].score,
                                isWin |-> tg[i].isWin, isLose |-> tg[i].isLose,
                                played |-> tg[i].played,
                                training |-> tg[i].training]]]]
    /\ pc' = [pc EXCEPT ![p] = "done"]
    /\ UNCHANGED << globalVars, heapVars, refVars, loopVars, comparisons, req,
                    sweeps, called, misuse, action >>

\* one request to /api/pacman/run, served from arrival to response
PacmanNext ==
    \/ Receive(1, PacmanRequests)
    \/ PAC_LayoutNotFound(1)
    \/ PAC_RunGames(1)

PacmanSpec == Init /\ [][PacmanNext]_vars

\* C12: run_pacman_game reports evaluation games only: whatever numTraining
\* and numGames are and whichever list the engine returns, no listed game
\* is a training game, the summary counts the listed games, and with no
\* evaluation game the list is empty and avgScore is 0.
C12_EvaluationGamesOnly ==
    \A p \in Requests :
        req[p].handler = "run_pacman_game" /\ Succeeded(p) =>
            LET listed == response[p].games
            IN  /\ \A i \in 1..Len(listed) : ~listed[i].training
                /\ response[p].summary.wins
                     = Cardinality({i \in 1..Len(listed) : listed[i].isWin})
                /\ response[p].summary.losses
                     = Cardinality({i \in 1..Len(listed) : listed[i].isLose})
                /\ req[p].numGames = 0 =>
                     listed = << >> /\ response[p].summary.avgScore = 0

====
